---- MODULE Spec2Model ----
(***************************************************************************)
(* cftools.js: the authentication-token lifecycle (Authentication), the    *)
(* request dispatcher (RequestClient) and the client's authenticate().     *)
(*                                                                         *)
(* Node's event loop runs one macrotask with all of its promise            *)
(* continuations before the next one, so every action below is the code    *)
(* that runs between two suspension points: the start of a call up to its  *)
(* first pending await, the arrival of an HTTP response up to the next     *)
(* pending await, one tick of the 100 ms poll interval, one firing of the  *)
(* background refresh interval.                                            *)
(***************************************************************************)
EXTENDS Integers, FiniteSets, Sequences, TLC

\* ------------------------------------------------------------- bounds
\* Invocations (of request, performRefresh, authenticate, or the refresh
\* interval's callback) one behaviour holds.
MaxInvocations == 2
\* Steps of the clock one behaviour holds.
MaxTicks == 1
\* Priority-queue calls one behaviour holds.
MaxPqCalls == 3
\* Cache operations one behaviour holds.
MaxCacheOps == 4

\* ---------------------------------------------------------- constants
MS_IN_ONE_S == 1000
S_IN_ONE_M == 60
M_IN_ONE_H == 60
H_IN_ONE_D == 24
MS_IN_ONE_M == MS_IN_ONE_S * S_IN_ONE_M
MS_IN_ONE_H == MS_IN_ONE_M * M_IN_ONE_H
MS_IN_ONE_D == MS_IN_ONE_H * H_IN_ONE_D
AUTHENTICATION_TOKEN_VALIDITY == MS_IN_ONE_D
AUTHENTICATION_TOKEN_VALIDITY_BUFFER == MS_IN_ONE_H
AUTHENTICATION_TOKEN_REFRESH_INTERVAL ==
  AUTHENTICATION_TOKEN_VALIDITY - AUTHENTICATION_TOKEN_VALIDITY_BUFFER

\* ------------------------------------------------------------- values
Procs == 1..MaxInvocations
\* null / undefined of a string-valued field
Null == "null"
\* null of a Date-valued field (dates are milliseconds since the start)
NoDate == -1
\* no interval handle
NoTimer == 0
\* The bearer token of the service's n-th grant: every grant is a new token.
TokenOf(n) ==
  CASE n = 1 -> "tok1"
    [] n = 2 -> "tok2"
    [] n = 3 -> "tok3"
    [] n = 4 -> "tok4"
    [] OTHER -> "tok5"
\* valid_for (seconds) the service reports; 0 stands for an omitted field,
\* 1800 is under the one-hour buffer, 86400 the documented validity.
ValidForValues == {0, 1800, 86400}
\* Enterprise tokens a client is constructed with.
EnterpriseTokens == {Null, "ent-secret"}
\* The clock advances by one of these.
TickSteps == {MS_IN_ONE_H, AUTHENTICATION_TOKEN_REFRESH_INTERVAL}
userAgent == "cftools.js"
\* The credentials the client is constructed with.
applicationId == "app-id"
applicationSecret == "app-secret"

VARIABLES
  now,                  \* Date.now()
  ticks,                \* clock steps taken
  enterpriseToken,      \* Authentication.enterpriseToken
  authenticated,        \* Authentication.authenticated
  authenticationToken,  \* Authentication.authenticationToken
  issuedAt,             \* Authentication.issuedAt
  expiresAt,            \* Authentication.expiresAt
  currentlyRefreshing,  \* Authentication.currentlyRefreshing
  refreshTimeout,       \* Authentication.refreshTimeout (handle)
  timers,               \* the intervals alive in the event loop
  pc,                   \* where each invocation is suspended
  kind,                 \* what each invocation is an invocation of
  hdrInit,              \* the headers the caller of request() supplied
  call,                 \* the HTTP call each invocation has in flight
  result,               \* what each finished invocation returned or threw
  fetches,              \* calls each invocation issued to its target URL
  loggedHeaders,        \* header maps passed to logger.debug so far
  loggedBodies,         \* request bodies passed to logger.debug so far
  authPosts,            \* POST /auth/register calls issued so far
  granted,              \* POST /auth/register calls that succeeded so far
  failed,               \* POST /auth/register calls that failed so far
  lastGrant,            \* the last successful /auth/register response
  shortGrant,           \* some grant was valid for less than the buffer
  errIn,                \* ErrSpec: the response fed to request()
  errOut,               \* ErrSpec: what request() made of it
  serverApiId,          \* Authentication.serverApiId
  srvExplicit,          \* SrvSpec: resolveServerApiId's first argument
  srvRequire,           \* SrvSpec: resolveServerApiId's second argument
  srvOut,               \* SrvSpec: what resolveServerApiId returned or threw
  pqService,            \* PqSpec: the service's priority-queue entries
  pqCache,              \* PqSpec: the cached getPriorityQueue responses
  pqOut,                \* PqSpec: the outcome of the last priority-queue call
  pqCalls,              \* PqSpec: priority-queue calls made so far
  cStore,               \* CacheManager.cache: the JSON text and expiry under each key
  keysSet,              \* CacheManager.keysSet, in insertion order
  cPending,             \* cacheSet() calls started and not awaited, still to land
  cLast,                \* CacheSpec: the most recent set of each key and what followed
  cOut,                 \* CacheSpec: the last operation and what it returned
  cOps                  \* CacheSpec: cache operations made so far

vars == <<now, ticks, enterpriseToken, authenticated, authenticationToken,
          issuedAt, expiresAt, currentlyRefreshing, refreshTimeout, timers,
          pc, kind, hdrInit, call, result, fetches, loggedHeaders, loggedBodies,
          authPosts, granted, failed,
          lastGrant, shortGrant, errIn, errOut, serverApiId, srvExplicit,
          srvRequire, srvOut, pqService, pqCache, pqOut, pqCalls,
          cStore, keysSet, cPending, cLast, cOut, cOps>>

tokenVars == <<authenticated, authenticationToken, issuedAt, expiresAt>>
refreshVars == <<currentlyRefreshing, refreshTimeout, timers>>
histVars == <<authPosts, granted, failed, lastGrant, shortGrant>>
errVars == <<errIn, errOut>>
logVars == <<loggedHeaders, loggedBodies>>
srvVars == <<serverApiId, srvExplicit, srvRequire, srvOut>>
\* What the token lifecycle never touches.
pqVars == <<pqService, pqCache, pqOut, pqCalls>>
cacheVars == <<cStore, keysSet, cPending, cLast, cOut, cOps>>
fnVars == <<errVars, srvVars, pqVars, cacheVars>>

\* ------------------------------------------------------------- errors
\* The status code each error class passes to HTTPRequestError's constructor.
ErrorStatusCode(k) ==
  CASE k \in {"InvalidMethod", "ParameterRequired", "FailedTypeValidation",
              "InvalidOption", "MaxLengthExceeded", "MinLengthNotReached",
              "LengthMismatch", "DuplicateEntry"} -> 400
    [] k \in {"LoginRequired", "TokenRegenerationRequired"} -> 401
    [] k \in {"BadSecret", "BadToken", "ExpiredToken", "InvalidAPIKey",
              "NoGrant"} -> 403
    [] k \in {"NotFound", "InvalidResource", "InvalidBucket"} -> 404
    [] k = "RateLimit" -> 429
    [] k \in {"Unexpected", "Timeout"} -> 500
    [] k = "SystemUnavailable" -> 503
    [] OTHER -> 0

\* A parsed JSON body: json is whether the text parsed, error the string
\* field `error` (Null when absent or no string), token and valid_for the
\* fields of an authentication response.
Body(json, error, token, validFor) ==
  [json |-> json, error |-> error, token |-> token, valid_for |-> validFor]
NoBody == Body(FALSE, Null, Null, 0)

\* The APIBody an error carries. errorHandler passes
\* {statusCode, url, method, body, headers}; the transport branch of
\* request() passes {status, body}; local errors pass null (given = FALSE).
Meta(given, statusCode, status, url, method, body) ==
  [given |-> given, statusCode |-> statusCode, status |-> status,
   url |-> url, method |-> method, body |-> body]
NullMeta == Meta(FALSE, -1, -1, Null, Null, NoBody)
NoAuth == [issuedAt |-> NoDate, expiresAt |-> NoDate, token |-> Null]

\* What an invocation returned (ok) or threw (~ok).
Outcome(ok, k, statusCode, meta, auth) ==
  [ok |-> ok, kind |-> k, statusCode |-> statusCode, meta |-> meta,
   auth |-> auth]
NoResult == Outcome(FALSE, "none", -1, NullMeta, NoAuth)
Returned(k, body) ==
  Outcome(TRUE, k, -1, Meta(FALSE, -1, -1, Null, Null, body), NoAuth)
ReturnedAuth(a) == Outcome(TRUE, "auth", -1, NullMeta, a)

\* new XError(body): every class below HTTPRequestError fixes its status.
TypedError(k, meta) == Outcome(FALSE, k, ErrorStatusCode(k), meta, NoAuth)
\* new HTTPRequestError(statusCode, msg, body)
HTTPRequestError(statusCode, meta) ==
  Outcome(FALSE, "HTTPRequest", statusCode, meta, NoAuth)
\* new LibraryParsingError(msg): extends Error, no status, no body.
LibraryParsingError == Outcome(FALSE, "LibraryParsing", -1, NullMeta, NoAuth)
\* a TypeError raised by the runtime (a property read on undefined)
RuntimeTypeError == Outcome(FALSE, "TypeError", -1, NullMeta, NoAuth)

\* `class X extends Y`: the class each error class extends.
SuperClass(k) ==
  CASE k = "TokenRegenerationRequired" -> "LoginRequired"
    [] k \in {"InvalidMethod", "ParameterRequired", "FailedTypeValidation",
              "InvalidOption", "MaxLengthExceeded", "MinLengthNotReached",
              "LengthMismatch", "DuplicateEntry", "LoginRequired", "BadSecret",
              "BadToken", "ExpiredToken", "InvalidAPIKey", "NoGrant",
              "NotFound", "InvalidResource", "InvalidBucket", "RateLimit",
              "Unexpected", "Timeout", "SystemUnavailable"} -> "HTTPRequest"
    [] OTHER -> "Error"
\* err instanceof cls: cls is the class of err or one it extends (the
\* hierarchy is three classes deep below Error).
InstanceOf(err, cls) ==
  cls \in {err.kind, SuperClass(err.kind), SuperClass(SuperClass(err.kind)),
           SuperClass(SuperClass(SuperClass(err.kind)))}
\* The classes an exported isXError type guard exists for.
TypeGuards ==
  {"MissingServerApiId", "InvalidServerId", "LibraryParsing", "HTTPRequest",
   "ParameterRequired", "FailedTypeValidation", "InvalidOption",
   "MaxLengthExceeded", "MinLengthNotReached", "LengthMismatch",
   "DuplicateEntry", "LoginRequired", "TokenRegenerationRequired", "BadSecret",
   "BadToken", "ExpiredToken", "InvalidAPIKey", "NoGrant", "NotFound",
   "InvalidResource", "InvalidBucket", "RateLimit", "Unexpected", "Timeout",
   "SystemUnavailable"}
\* is<cls>Error(err), false where the library exports no such guard.
IsError(cls, err) == cls \in TypeGuards /\ ~err.ok /\ InstanceOf(err, cls)

\* ----------------------------------------------------- HTTP responses
\* What fetch() settles with: a Response (type "response") or a rejection
\* named AbortError, TimeoutError, or anything else ("NetworkError").
Response(status, body) == [type |-> "response", status |-> status, body |-> body]
Rejection(name) == [type |-> name, status |-> 0, body |-> NoBody]
\* Variant of response.ok that takes every status below 400 as a success.
ResponseOk_Below400(resp) == resp.status >= 200 /\ resp.status <= 399
ResponseOk(resp) == resp.status >= 200 /\ resp.status <= 299

\* errorHandler's switch on (status, safeError)
ErrorSwitch(status, safeError, errorBody) ==
  CASE status = 400 ->
         (CASE safeError = "invalid-method" -> TypedError("InvalidMethod", errorBody)
            [] safeError = "parameter-required" -> TypedError("ParameterRequired", errorBody)
            [] safeError = "failed-type-validation" -> TypedError("FailedTypeValidation", errorBody)
            [] safeError = "invalid-option" -> TypedError("InvalidOption", errorBody)
            [] safeError = "max-length-exceeded" -> TypedError("MaxLengthExceeded", errorBody)
            [] safeError = "min-length-too-small" -> TypedError("MinLengthNotReached", errorBody)
            [] safeError = "length-missmatch" -> TypedError("LengthMismatch", errorBody)
            [] safeError = "duplicate" -> TypedError("DuplicateEntry", errorBody)
            [] OTHER -> HTTPRequestError(status, errorBody))
    [] status = 401 ->
         IF safeError = "login-required"
         THEN TypedError("LoginRequired", errorBody)
         ELSE HTTPRequestError(status, errorBody)
    [] status = 403 ->
         (CASE safeError = "token-regeneration-required" -> TypedError("TokenRegenerationRequired", errorBody)
            [] safeError = "bad-secret" -> TypedError("BadSecret", errorBody)
            [] safeError = "bad-token" -> TypedError("BadToken", errorBody)
            [] safeError = "expired-token" -> TypedError("ExpiredToken", errorBody)
            [] safeError = "no-grant" -> TypedError("NoGrant", errorBody)
            [] OTHER -> HTTPRequestError(status, errorBody))
    [] status = 404 ->
         (CASE safeError = "not-found" -> TypedError("NotFound", errorBody)
            [] safeError = "invalid-resource" -> TypedError("InvalidResource", errorBody)
            [] safeError = "invalid-bucket" -> TypedError("InvalidBucket", errorBody)
            [] OTHER -> TypedError("NotFound", errorBody))
    [] status = 429 -> TypedError("RateLimit", errorBody)
    [] status = 500 ->
         (CASE safeError = "unexpected" -> TypedError("Unexpected", errorBody)
            [] safeError = "timeout" -> TypedError("Timeout", errorBody)
            [] safeError = "system-unavailable" -> TypedError("SystemUnavailable", errorBody)
            [] OTHER -> HTTPRequestError(status, errorBody))
    [] OTHER -> HTTPRequestError(status, errorBody)

\* body.error when the body parsed to an object with a string `error`
SafeError(resp) == IF resp.body.json THEN resp.body.error ELSE Null

\* Variant of errorHandler that never reads the body's error slug.
ErrorHandler_NoSlug(url, method, resp) ==
  ErrorSwitch(resp.status, Null,
              Meta(TRUE, resp.status, -1, url, method,
                   IF resp.body.json THEN resp.body ELSE NoBody))

\* Variant of errorHandler whose errorBody leaves out the request.
ErrorHandler_NoRequest(url, method, resp) ==
  ErrorSwitch(resp.status, SafeError(resp),
              Meta(TRUE, resp.status, -1, Null, Null,
                   IF resp.body.json THEN resp.body ELSE NoBody))

\* RequestClient.errorHandler({url, method}, response): always throws.
ErrorHandler(url, method, resp) ==
  ErrorSwitch(resp.status, SafeError(resp),
              Meta(TRUE, resp.status, -1, url, method,
                   IF resp.body.json THEN resp.body ELSE NoBody))

\* RequestClient.request from the settling of fetch() on.
RequestOutcome(url, method, resp) ==
  CASE resp.type = "AbortError" ->
         TypedError("Timeout", Meta(TRUE, -1, 408, Null, Null, NoBody))
    [] resp.type = "TimeoutError" ->
         TypedError("Timeout", Meta(TRUE, -1, 408, Null, Null, NoBody))
    [] resp.type # "response" ->
         HTTPRequestError(0, Meta(TRUE, -1, -1, Null, Null, NoBody))
    [] OTHER ->
         IF ~ResponseOk(resp) THEN ErrorHandler(url, method, resp)
         ELSE IF resp.status = 204 THEN Returned("empty", NoBody)
         ELSE IF ~resp.body.json THEN LibraryParsingError
         ELSE Returned("json", resp.body)

\* ------------------------------------------------------- Authentication
EmptyHeaders == [h \in {} |-> Null]
\* `Bearer ${this.authenticationToken}`
BearerOf(t) ==
  CASE t = "tok1" -> "Bearer tok1"
    [] t = "tok2" -> "Bearer tok2"
    [] t = "tok3" -> "Bearer tok3"
    [] t = "tok4" -> "Bearer tok4"
    [] t = "tok5" -> "Bearer tok5"
    [] OTHER -> "Bearer null"
\* this.enterpriseToken?.length
HasEnterpriseToken == enterpriseToken \notin {Null, ""}
EnterpriseHeader ==
  IF HasEnterpriseToken
  THEN "X-Enterprise-Access-Token" :> enterpriseToken
  ELSE EmptyHeaders

\* What getHeaders and resolveHeaders give: the header map, or the error thrown.
Headers(h) == [ok |-> TRUE, headers |-> h, error |-> NoResult]
HeadersThrow(e) == [ok |-> FALSE, headers |-> EmptyHeaders, error |-> e]

\* Variant of getHeaders without the check of `authenticated`.
GetHeaders_NoLoginCheck(isAuthenticating) ==
  IF isAuthenticating
  THEN Headers(EnterpriseHeader)
  ELSE Headers(("Authorization" :> BearerOf(authenticationToken))
               @@ EnterpriseHeader)

\* Variant of getHeaders that sends the enterprise token only while
\* authenticating.
GetHeaders_NoEnterprise(isAuthenticating) ==
  IF isAuthenticating
  THEN Headers(EnterpriseHeader)
  ELSE IF ~authenticated
       THEN HeadersThrow(TypedError("LoginRequired", NullMeta))
       ELSE Headers("Authorization" :> BearerOf(authenticationToken))

\* Variant of getHeaders that gives the bearer headers whatever the call
\* is for.
GetHeaders_AlwaysBearer(isAuthenticating) ==
  IF ~authenticated
  THEN HeadersThrow(TypedError("LoginRequired", NullMeta))
  ELSE Headers(("Authorization" :> BearerOf(authenticationToken))
               @@ EnterpriseHeader)

\* Authentication.getHeaders(isAuthenticating)
GetHeaders(isAuthenticating) ==
  IF isAuthenticating
  THEN Headers(EnterpriseHeader)
  ELSE IF ~authenticated
       THEN HeadersThrow(TypedError("LoginRequired", NullMeta))
       ELSE Headers(("Authorization" :> BearerOf(authenticationToken))
                    @@ EnterpriseHeader)

\* Authentication.isExpired()
IsExpired == IF expiresAt = NoDate THEN TRUE ELSE expiresAt < now

\* Authentication.shouldRefresh()
ShouldRefresh ==
  IF IsExpired THEN TRUE
  ELSE IF issuedAt = NoDate \/ expiresAt = NoDate THEN TRUE
  ELSE expiresAt - now < AUTHENTICATION_TOKEN_VALIDITY_BUFFER

\* Variant of isRefreshing that never sees a refresh in progress.
IsRefreshing_Never == FALSE

\* Authentication.isRefreshing()
IsRefreshing == currentlyRefreshing

\* Authentication.currentToken(): the stored token, or LoginRequired.
CurrentToken ==
  IF ~authenticated \/ authenticationToken = Null
  THEN TypedError("LoginRequired", NullMeta)
  ELSE ReturnedAuth([issuedAt |-> issuedAt, expiresAt |-> expiresAt,
                     token |-> authenticationToken])

\* ------------------------------------------------------- RequestClient
\* Variant of resolveHeaders in which the caller's headers override the
\* authentication headers.
ResolveHeaders_CallerWins(headersInit, isAuthenticating) ==
  LET auth == GetHeaders(isAuthenticating)
      merged == ("User-Agent" :> userAgent) @@ headersInit @@ auth.headers
  IN IF ~auth.ok THEN auth
     ELSE Headers([h \in DOMAIN merged \ {"Referer"} |-> merged[h]])

\* RequestClient.resolveHeaders(headersInit, isAuthenticating): the caller's
\* headers, overridden by the auth headers, overridden by User-Agent,
\* without Referer.
ResolveHeaders(headersInit, isAuthenticating) ==
  LET auth == GetHeaders(isAuthenticating)
      merged == ("User-Agent" :> userAgent) @@ auth.headers @@ headersInit
  IN IF ~auth.ok THEN auth
     ELSE Headers([h \in DOMAIN merged \ {"Referer"} |-> merged[h]])

\* An HTTP call in flight: fetch(url, {method, headers, signal}).
Call(url, method, headers) == [url |-> url, method |-> method, headers |-> headers]
NoCall == Call(Null, Null, EmptyHeaders)
AuthRegisterUrl == "/v1/auth/register"
ApiUrl == "/v1/@app/grants"

\* Headers a caller of request() passes in options.headers.
CallerHeaders ==
  {EmptyHeaders,
   ("Authorization" :> "Bearer caller") @@ ("Referer" :> "https://caller")}

\* Authentication.getAuthenticationBody(): the body of POST /auth/register,
\* which the method also passes to logger.debug.
GetAuthenticationBody ==
  [application_id |-> applicationId, secret |-> applicationSecret]

\* Variant of the logged header map that redacts Authorization only.
RedactedHeaders_AuthorizationOnly(headers) ==
  [h \in DOMAIN headers \cup {"Authorization"} |->
     IF h = "Authorization" THEN "Bearer [REDACTED]" ELSE headers[h]]

\* The header map resolveRequestOptions passes to logger.debug: the
\* resolved headers with Authorization and X-Enterprise-Access-Token
\* overwritten (the latter by undefined when the headers have none).
RedactedHeaders(headers) ==
  [h \in DOMAIN headers \cup {"Authorization", "X-Enterprise-Access-Token"} |->
     CASE h = "Authorization" -> "Bearer [REDACTED]"
       [] h = "X-Enterprise-Access-Token" ->
            IF h \in DOMAIN headers THEN "[REDACTED]" ELSE Null
       [] OTHER -> headers[h]]

\* What the code that issues call c has logged by the time it awaits:
\* resolveRequestOptions logs the options of every call, with the headers
\* redacted and the body as it is sent; getAuthenticationBody logs the
\* body of the bootstrap call.
LogCall(where, c) ==
  /\ loggedHeaders' = IF where \in {"authWait", "fetchWait"}
                      THEN loggedHeaders \cup {RedactedHeaders(c.headers)}
                      ELSE loggedHeaders
  /\ loggedBodies' = IF where = "authWait"
                     THEN loggedBodies \cup {GetAuthenticationBody}
                     ELSE loggedBodies

\* ------------------------------------------------ pieces of the actions
\* The invocation suspends at an await that is still pending.
Suspend(p, where, c) ==
  /\ pc' = [pc EXCEPT ![p] = where]
  /\ call' = [call EXCEPT ![p] = c]
  /\ result' = result
  /\ fetches' = IF where = "fetchWait"
                THEN [fetches EXCEPT ![p] = @ + 1]
                ELSE fetches
  /\ LogCall(where, c)

\* The invocation returns or throws r to its caller.
Finish(p, r) ==
  /\ pc' = [pc EXCEPT ![p] = "done"]
  /\ call' = [call EXCEPT ![p] = NoCall]
  /\ result' = [result EXCEPT ![p] = r]
  /\ fetches' = fetches
  /\ UNCHANGED logVars

\* request(url, options, isAuthenticating) from its try block on, in the
\* state the step leaves: the headers are resolved as fetch's argument, so
\* what resolveHeaders throws is caught and rethrown as HTTPRequestError(0).
Fetch(p) ==
  LET rh == ResolveHeaders(hdrInit[p], FALSE)'
  IN IF rh.ok
     THEN Suspend(p, "fetchWait", Call(ApiUrl, "GET", rh.headers))
     ELSE Finish(p, HTTPRequestError(0, Meta(TRUE, -1, -1, Null, Null, NoBody)))

\* request()'s first statement: whether it awaits performRefresh() before
\* its fetch.
RequestRefreshes(isAuthenticating) == ShouldRefresh /\ ~isAuthenticating

\* authenticate() from its post() on: request(url, {POST, body}, true)
\* skips the refresh and suspends at fetch; what resolveHeaders throws is
\* rethrown as HTTPRequestError(0).
PostAuthRegister(p) ==
  LET rh == ResolveHeaders(EmptyHeaders, TRUE)
  IN /\ ~RequestRefreshes(TRUE)
     /\ IF rh.ok
        THEN /\ Suspend(p, "authWait", Call(AuthRegisterUrl, "POST", rh.headers))
             /\ authPosts' = authPosts + 1
        ELSE /\ Finish(p, HTTPRequestError(0, Meta(TRUE, -1, -1, Null, Null, NoBody)))
             /\ authPosts' = authPosts

\* Variant of authenticate() that never returns the stored token.
AuthenticateReturnsCached_Never == FALSE

\* authenticate()'s first statement: the stored token is returned while
\* it needs no refresh.
AuthenticateReturnsCached == ~ShouldRefresh

\* What follows performRefresh() in its caller: request() goes on to its
\* fetch, a direct call and the interval's callback are done.
AfterRefresh(p) ==
  IF kind'[p] = "request" THEN Fetch(p) ELSE Finish(p, Returned("void", NoBody))

\* Variant of performRefresh() that sets the new interval without clearing
\* the one the handle names.
RefreshCompleted_NoClear(p, tm) ==
  /\ currentlyRefreshing' = FALSE
  /\ timers' = tm \cup {[id |-> p, due |-> now + AUTHENTICATION_TOKEN_REFRESH_INTERVAL]}
  /\ refreshTimeout' = p

\* performRefresh() after its await of authenticate(): the flag is cleared,
\* the interval the handle names is cleared, a new one is set. tm is the
\* set of intervals alive when the step began.
RefreshCompleted(p, tm) ==
  /\ currentlyRefreshing' = FALSE
  /\ timers' = {t \in tm : t.id # refreshTimeout}
                 \cup {[id |-> p, due |-> now + AUTHENTICATION_TOKEN_REFRESH_INTERVAL]}
  /\ refreshTimeout' = p

\* performRefresh() from setRefreshing(true) on: authenticate() either
\* posts (the invocation suspends with the flag set) or returns the stored
\* token (the refresh completes in the same step); what authenticate()
\* throws leaves performRefresh() with the flag set.
EnterRefreshSection(p, tm) ==
  IF ~AuthenticateReturnsCached
  THEN /\ currentlyRefreshing' = TRUE
       /\ refreshTimeout' = refreshTimeout
       /\ timers' = tm
       /\ UNCHANGED tokenVars
       /\ PostAuthRegister(p)
  ELSE /\ UNCHANGED <<tokenVars, authPosts>>
       /\ IF CurrentToken.ok
          THEN RefreshCompleted(p, tm) /\ AfterRefresh(p)
          ELSE /\ currentlyRefreshing' = TRUE
               /\ refreshTimeout' = refreshTimeout
               /\ timers' = tm
               /\ Finish(p, CurrentToken)

\* performRefresh() up to its first pending await.
PerformRefresh(p, tm) ==
  IF ~ShouldRefresh
  THEN /\ UNCHANGED <<tokenVars, currentlyRefreshing, refreshTimeout, authPosts>>
       /\ timers' = tm
       /\ AfterRefresh(p)
  ELSE IF IsRefreshing
  THEN /\ UNCHANGED <<tokenVars, currentlyRefreshing, refreshTimeout, authPosts>>
       /\ timers' = tm
       /\ Suspend(p, "poll", NoCall)
  ELSE EnterRefreshSection(p, tm)

\* Variant of the validity computation that takes valid_for as milliseconds.
ResolvedValidFor_NoConversion(validFor) ==
  IF validFor # 0
  THEN validFor
  ELSE AUTHENTICATION_TOKEN_REFRESH_INTERVAL

\* response.valid_for ? response.valid_for * MS_IN_ONE_S : REFRESH_INTERVAL
ResolvedValidFor(validFor) ==
  IF validFor # 0
  THEN validFor * MS_IN_ONE_S
  ELSE AUTHENTICATION_TOKEN_REFRESH_INTERVAL

\* Variant of authenticate() that marks the client authenticated without
\* storing the token.
StoreAuthentication_NoToken(body) ==
  /\ authenticated' = TRUE
  /\ issuedAt' = now
  /\ expiresAt' = now + ResolvedValidFor(body.valid_for)
  /\ authenticationToken' = authenticationToken

\* authenticate() after its await: the response is stored in the
\* Authentication.
StoreAuthentication(body) ==
  /\ authenticated' = TRUE
  /\ issuedAt' = now
  /\ expiresAt' = now + ResolvedValidFor(body.valid_for)
  /\ authenticationToken' = body.token

\* Invocations start in the order of their numbers.
NextSlot(p) == pc[p] = "idle" /\ \A q \in Procs : q < p => pc[q] # "idle"

\* -------------------------------------------------------------- inputs
\* What the service answers POST /auth/register with.
AuthResponses ==
  {Response(200, Body(TRUE, Null, TokenOf(granted + 1), v)) : v \in ValidForValues}
    \cup {Response(403, Body(TRUE, "bad-secret", Null, 0)), Rejection("TimeoutError")}
\* What the service answers any other call with.
FetchResponses ==
  {Response(200, Body(TRUE, Null, Null, 0)), Response(429, NoBody),
   Rejection("TimeoutError")}

\* --------------------------------------------------------------- Init
InitClient ==
  /\ now = 0
  /\ ticks = 0
  /\ enterpriseToken \in EnterpriseTokens
  /\ authenticated = FALSE
  /\ authenticationToken = Null
  /\ issuedAt = NoDate
  /\ expiresAt = NoDate
  /\ currentlyRefreshing = FALSE
  /\ refreshTimeout = NoTimer
  /\ timers = {}
  /\ pc = [p \in Procs |-> "idle"]
  /\ kind = [p \in Procs |-> "none"]
  /\ hdrInit = [p \in Procs |-> EmptyHeaders]
  /\ call = [p \in Procs |-> NoCall]
  /\ result = [p \in Procs |-> NoResult]
  /\ fetches = [p \in Procs |-> 0]
  /\ loggedHeaders = {}
  /\ loggedBodies = {}
  /\ authPosts = 0
  /\ granted = 0
  /\ failed = 0
  /\ lastGrant = Body(FALSE, Null, Null, 0)
  /\ shortGrant = FALSE

\* ------------------------------------------------------- CacheManager
\* Keys of the process-wide cache, and the prefixes their sets are named by.
CacheKeys == {"appGrants:root", "appGrants:root#2", "test"}
CachePrefixes == {"appGrants", "test"}
\* key.startsWith(prefix)
StartsWith(key, prefix) ==
  \/ prefix = "appGrants" /\ key \in {"appGrants:root", "appGrants:root#2"}
  \/ prefix = "test" /\ key = "test"

\* Strings: a plain one, and one in the format of Date.prototype.toISOString.
IsoString == "2024-01-01T00:00:00.000Z"
CacheStrings == {"value", IsoString}
\* /^\d\d\d\d-\d\d-\d\dT\d\d:\d\d:\d\d.\d\d\dZ$/.exec(value)
IsIsoDate(s) == s = IsoString

\* JavaScript values: null, a string, a Date (by its ISO string), and a
\* grants response (one grant: its createdAt and its resource identifier)
\* with the application it was fetched for.
NullVal == [type |-> "null"]
StringVal(s) == [type |-> "string", s |-> s]
DateVal(s) == [type |-> "date", s |-> s]
GrantsVal(app, createdAt, identifier) ==
  [type |-> "grants", app |-> app, createdAt |-> createdAt,
   identifier |-> identifier]

\* JSON.stringify(value): a Date is written as its ISO string.
JsonNull == [json |-> "null"]
JsonString(s) == [json |-> "string", s |-> s]
Stringify(v) ==
  CASE v.type = "null" -> JsonNull
    [] v.type \in {"string", "date"} -> JsonString(v.s)
    [] v.type = "grants" ->
         [json |-> "object", app |-> v.app,
          createdAt |-> JsonString(v.createdAt.s),
          identifier |-> JsonString(v.identifier.s)]

\* CacheManager.deserializationHelper: a string in the ISO format becomes
\* a Date, every other value stays.
DeserializationHelper(s) == IF IsIsoDate(s) THEN DateVal(s) ELSE StringVal(s)

\* JSON.parse(text, CacheManager.deserializationHelper)
Parse(t) ==
  CASE t.json = "null" -> NullVal
    [] t.json = "string" -> DeserializationHelper(t.s)
    [] t.json = "object" ->
         GrantsVal(t.app, DeserializationHelper(t.createdAt.s),
                   DeserializationHelper(t.identifier.s))

\* An entry of the store: the text and the time it expires; no entry.
CacheEntry(text, expires) == [text |-> text, expires |-> expires]
NoEntry == CacheEntry(JsonNull, NoDate)
\* cache.get(key): null for a key that is absent or has outlived its ttl.
StoreGet(k) ==
  IF cStore[k] = NoEntry \/ now > cStore[k].expires
  THEN NoEntry
  ELSE cStore[k]

\* CacheManager.get(key)
Get(k) == IF StoreGet(k) = NoEntry THEN NullVal ELSE Parse(StoreGet(k).text)
\* CacheManager.has(key), size(), keysForPrefix(prefix)
Has(k) == \E i \in 1..Len(keysSet) : keysSet[i] = k
Size == Len(keysSet)
KeysForPrefix(ks, prefix) == SelectSeq(ks, LAMBDA k : StartsWith(k, prefix))
Range(seq) == {seq[i] : i \in 1..Len(seq)}

\* CacheManager.set(key, value, ttl): the store, and the Set of keys (a key
\* already in a Set keeps its place).
StoreAfterSet(st, k, v, ttl) ==
  [st EXCEPT ![k] = CacheEntry(Stringify(v), now + ttl)]
KeysAfterAdd(ks, k) == IF k \in Range(ks) THEN ks ELSE Append(ks, k)
\* CacheManager.del(key) for every key of D
StoreAfterDel(st, D) == [k \in CacheKeys |-> IF k \in D THEN NoEntry ELSE st[k]]
KeysAfterDel(ks, D) == SelectSeq(ks, LAMBDA k : k \notin D)

\* enforceMaxSizeForPrefix(prefix, maxSize): keys.slice(0, keys.length - maxSize)
KeysToDelete(ks, prefix, maxSize) ==
  LET keys == KeysForPrefix(ks, prefix)
  IN IF Len(keys) > maxSize
     THEN Range(SubSeq(keys, 1, Len(keys) - maxSize))
     ELSE {}

\* The clients of the process, by the application id each was constructed with.
CacheClients == {applicationId, "app-id-2"}
\* defaultCacheConfiguration.appGrants: [ttl in seconds, max size]
AppGrantsTtl == 100
AppGrantsMaxSize == 60
\* CFToolsClient.cacheTTL('appGrants'), cacheMaxSize('appGrants')
CacheTTL == AppGrantsTtl * MS_IN_ONE_S
CacheMaxSize == AppGrantsMaxSize
\* `${prefix}:${rootCacheKey}`
AppGrantsKey == "appGrants:root"

\* What followed the most recent set of a key: v its value, at the number
\* of the operation that set it.
LastSet(status, v, at, expires) ==
  [status |-> status, v |-> v, at |-> at, expires |-> expires]
NeverSet == LastSet("never", NullVal, 0, NoDate)
\* The last cache operation and what it returned.
CacheOutcome(op, client, value, fetched, prefix, maxSize, before, deleted) ==
  [op |-> op, client |-> client, value |-> value, fetched |-> fetched,
   prefix |-> prefix, maxSize |-> maxSize, before |-> before,
   deleted |-> deleted]
CacheOp(op) == CacheOutcome(op, Null, NullVal, FALSE, Null, 0, <<>>, {})
\* An empty cache: the state of a new process.
CacheIdle ==
  /\ cStore = [k \in CacheKeys |-> NoEntry]
  /\ keysSet = <<>>
  /\ cPending = {}
  /\ cLast = [k \in CacheKeys |-> NeverSet]
  /\ cOut = CacheOp("none")
  /\ cOps = 0

\* A (server, player) pair: the key of a priority-queue entry, and of a
\* cached getPriorityQueue response ({serverApiId, playerId} hashed).
PqKeys == {"srv-a", "srv-b"} \X {"player-1", "player-2"}
PqOutcome(op, key, ok, error, hadEntry) ==
  [op |-> op, key |-> key, ok |-> ok, error |-> error, hadEntry |-> hadEntry]
PqNone == PqOutcome("none", <<Null, Null>>, FALSE, "none", FALSE)
\* No priority-queue call has been made, the cache is empty.
PqIdle ==
  /\ pqService = {}
  /\ pqCache = [k \in PqKeys |-> "none"]
  /\ pqOut = PqNone
  /\ pqCalls = 0

\* resolveServerApiId has not been called: no result yet.
SrvPending == [ok |-> FALSE, value |-> Null, error |-> "pending"]
SrvIdle ==
  /\ serverApiId = Null
  /\ srvExplicit = Null
  /\ srvRequire = FALSE
  /\ srvOut = SrvPending
ErrIdle ==
  /\ errIn = Rejection("none")
  /\ errOut = NoResult

Init ==
  /\ InitClient
  /\ ErrIdle
  /\ SrvIdle
  /\ PqIdle
  /\ CacheIdle

\* ------------------------------------------------------------ actions
\* requestClient.request(url, {headers: h}, false) is called.
StartRequest(p, h) ==
  /\ NextSlot(p)
  /\ kind' = [kind EXCEPT ![p] = "request"]
  /\ hdrInit' = [hdrInit EXCEPT ![p] = h]
  /\ UNCHANGED <<now, ticks, enterpriseToken, granted, failed, lastGrant, shortGrant, fnVars>>
  /\ IF RequestRefreshes(FALSE)
     THEN PerformRefresh(p, timers)
     ELSE /\ UNCHANGED <<tokenVars, refreshVars, authPosts>>
          /\ AfterRefresh(p)

\* authProvider.performRefresh() is called.
StartPerformRefresh(p) ==
  /\ NextSlot(p)
  /\ kind' = [kind EXCEPT ![p] = "refresh"]
  /\ UNCHANGED <<now, ticks, enterpriseToken, hdrInit, granted, failed, lastGrant, shortGrant, fnVars>>
  /\ PerformRefresh(p, timers)

\* client.authenticate() is called.
StartAuthenticate(p) ==
  /\ NextSlot(p)
  /\ kind' = [kind EXCEPT ![p] = "auth"]
  /\ UNCHANGED <<now, ticks, enterpriseToken, tokenVars, refreshVars, hdrInit,
                 granted, failed, lastGrant, shortGrant, fnVars>>
  /\ IF AuthenticateReturnsCached
     THEN Finish(p, CurrentToken) /\ authPosts' = authPosts
     ELSE PostAuthRegister(p)

\* The refresh interval t fires: its callback calls performRefresh() and
\* drops the promise; the interval is due again one period later.
TimerFire(p, t) ==
  /\ NextSlot(p)
  /\ t \in timers
  /\ now >= t.due
  /\ kind' = [kind EXCEPT ![p] = "timer"]
  /\ UNCHANGED <<now, ticks, enterpriseToken, hdrInit, granted, failed, lastGrant, shortGrant, fnVars>>
  /\ PerformRefresh(p, (timers \ {t})
                         \cup {[t EXCEPT !.due = now + AUTHENTICATION_TOKEN_REFRESH_INTERVAL]})

\* The 100 ms poll of a waiting performRefresh() finds the flag clear: the
\* wait ends and performRefresh() goes on without a second shouldRefresh().
PollTick(p) ==
  /\ pc[p] = "poll"
  /\ ~IsRefreshing
  /\ UNCHANGED <<now, ticks, enterpriseToken, kind, hdrInit, granted, failed,
                 lastGrant, shortGrant, fnVars>>
  /\ EnterRefreshSection(p, timers)

\* The POST /auth/register of invocation p settles with resp.
AuthResponse(p, resp) ==
  /\ pc[p] = "authWait"
  /\ UNCHANGED <<now, ticks, enterpriseToken, kind, hdrInit, authPosts, fnVars>>
  /\ LET out == RequestOutcome(call[p].url, call[p].method, resp)
     IN IF out.ok /\ out.kind = "json"
        THEN /\ StoreAuthentication(resp.body)
             /\ granted' = granted + 1
             /\ failed' = failed
             /\ lastGrant' = resp.body
             /\ shortGrant' = (shortGrant \/ ResolvedValidFor(resp.body.valid_for)
                                               < AUTHENTICATION_TOKEN_VALIDITY_BUFFER)
             /\ IF kind[p] = "auth"
                THEN /\ UNCHANGED refreshVars
                     /\ Finish(p, ReturnedAuth([issuedAt |-> issuedAt',
                                                expiresAt |-> expiresAt',
                                                token |-> authenticationToken']))
                ELSE RefreshCompleted(p, timers) /\ AfterRefresh(p)
        ELSE /\ UNCHANGED <<tokenVars, refreshVars, granted, lastGrant, shortGrant>>
             /\ failed' = failed + 1
             /\ Finish(p, IF out.ok THEN RuntimeTypeError ELSE out)

\* Variant of request() that issues its call again after a 429.
FetchResponse_RetryOn429(p, resp) ==
  /\ pc[p] = "fetchWait"
  /\ IF resp.status = 429 /\ fetches[p] < 2
     THEN Suspend(p, "fetchWait", call[p])
     ELSE Finish(p, RequestOutcome(call[p].url, call[p].method, resp))
  /\ UNCHANGED <<now, ticks, enterpriseToken, tokenVars, refreshVars, kind, hdrInit,
                 histVars, fnVars>>

\* The call of request() invocation p settles with resp.
FetchResponse(p, resp) ==
  /\ pc[p] = "fetchWait"
  /\ Finish(p, RequestOutcome(call[p].url, call[p].method, resp))
  /\ UNCHANGED <<now, ticks, enterpriseToken, tokenVars, refreshVars, kind, hdrInit,
                 histVars, fnVars>>

\* Time passes. Every HTTP call is bounded by the request timeout (10 s)
\* and a poll is at most 100 ms away, so an hour passes only while no
\* call is in flight and no poll is about to end a wait.
Tick(d) ==
  /\ ticks < MaxTicks
  /\ \A p \in Procs : pc[p] \notin {"authWait", "fetchWait"}
  /\ \A p \in Procs : pc[p] = "poll" => IsRefreshing
  /\ now' = now + d
  /\ ticks' = ticks + 1
  /\ UNCHANGED <<enterpriseToken, tokenVars, refreshVars, pc, kind, hdrInit, call,
                 result, fetches, logVars, histVars, fnVars>>

Next ==
  \/ \E p \in Procs, h \in CallerHeaders : StartRequest(p, h)
  \/ \E p \in Procs : StartPerformRefresh(p)
  \/ \E p \in Procs : StartAuthenticate(p)
  \/ \E p \in Procs : \E t \in timers : TimerFire(p, t)
  \/ \E p \in Procs : PollTick(p)
  \/ \E p \in Procs, resp \in AuthResponses : AuthResponse(p, resp)
  \/ \E p \in Procs, resp \in FetchResponses : FetchResponse(p, resp)
  \/ \E d \in TickSteps : Tick(d)

Spec == Init /\ [][Next]_vars

\* ------------------------------------- request() as a function of the response
\* The slugs errorHandler's switch has a case for, and one it has none for.
ErrorSlugs ==
  {"invalid-method", "parameter-required", "failed-type-validation",
   "invalid-option", "max-length-exceeded", "min-length-too-small",
   "length-missmatch", "duplicate", "login-required",
   "token-regeneration-required", "bad-secret", "bad-token", "expired-token",
   "no-grant", "not-found", "invalid-resource", "invalid-bucket",
   "unexpected", "timeout", "system-unavailable", "unknown-slug"}
\* Statuses the service answers with.
ErrorStatuses == {200, 201, 204, 302, 400, 401, 403, 404, 429, 500, 502, 503}
\* Bodies: {error: slug}, a JSON object without `error`, and text that is
\* no JSON.
ErrorBodies ==
  {Body(TRUE, s, Null, 0) : s \in ErrorSlugs \cup {Null}} \cup {NoBody}
ErrInputs ==
  {Response(st, b) : st \in ErrorStatuses, b \in ErrorBodies}
    \cup {Rejection(n) : n \in {"AbortError", "TimeoutError", "NetworkError"}}

ErrInit ==
  /\ InitClient
  /\ errIn \in ErrInputs
  /\ errOut = NoResult
  /\ SrvIdle
  /\ PqIdle
  /\ CacheIdle

\* fetch() of a request() settles with errIn.
ErrRespond ==
  /\ errOut = NoResult
  /\ errOut' = RequestOutcome(ApiUrl, "GET", errIn)
  /\ UNCHANGED <<now, ticks, enterpriseToken, tokenVars, refreshVars, pc, kind,
                 hdrInit, call, result, fetches, logVars, histVars, errIn, srvVars, pqVars,
                 cacheVars>>

ErrNext == ErrRespond

ErrSpec == ErrInit /\ [][ErrNext]_vars

\* ------------------------------------------------- resolveServerApiId
\* Server API ids: none (null or undefined), the empty string, and ids.
ServerApiIds == {Null, "", "srv-a", "srv-b", "srv-c"}
\* `if (x)` on a string | undefined
Truthy(x) == x \notin {Null, ""}

\* Variant of resolveServerApiId in which the client's id comes first.
ResolveServerApiId_DefaultFirst(explicit, require) ==
  IF Truthy(serverApiId) THEN [ok |-> TRUE, value |-> serverApiId, error |-> "none"]
  ELSE IF Truthy(explicit) THEN [ok |-> TRUE, value |-> explicit, error |-> "none"]
  ELSE IF require THEN [ok |-> FALSE, value |-> Null, error |-> "MissingServerApiId"]
  ELSE [ok |-> TRUE, value |-> Null, error |-> "none"]

\* Authentication.resolveServerApiId(serverApiId, require)
ResolveServerApiId(explicit, require) ==
  IF Truthy(explicit) THEN [ok |-> TRUE, value |-> explicit, error |-> "none"]
  ELSE IF Truthy(serverApiId) THEN [ok |-> TRUE, value |-> serverApiId, error |-> "none"]
  ELSE IF require THEN [ok |-> FALSE, value |-> Null, error |-> "MissingServerApiId"]
  ELSE [ok |-> TRUE, value |-> Null, error |-> "none"]

SrvInit ==
  /\ InitClient
  /\ ErrIdle
  /\ serverApiId \in ServerApiIds
  /\ srvExplicit \in ServerApiIds
  /\ srvRequire \in BOOLEAN
  /\ srvOut = SrvPending
  /\ PqIdle
  /\ CacheIdle

\* authProvider.resolveServerApiId(srvExplicit, srvRequire) is called.
SrvResolve ==
  /\ srvOut = SrvPending
  /\ srvOut' = ResolveServerApiId(srvExplicit, srvRequire)
  /\ UNCHANGED <<now, ticks, enterpriseToken, tokenVars, refreshVars, pc, kind,
                 hdrInit, call, result, fetches, logVars, histVars, errVars,
                 serverApiId, srvExplicit, srvRequire, pqVars, cacheVars>>

SrvNext == SrvResolve

SrvSpec == SrvInit /\ [][SrvNext]_vars

\* ------------------------------------------------------ priority queue
\* getPriorityQueue, postPriorityQueue and deletePriorityQueue called one
\* after the other on an authenticated client with caching enabled; every
\* HTTP call is answered by the service from its entries.

\* GET /server/{id}/queuepriority?cftools_id=...: the player's entry or none.
PqServiceGet(k) == IF k \in pqService THEN "entry" ELSE "empty"

\* What getPriorityQueue({serverApiId, playerId}) returns: the cached
\* response when there is one (an empty list is cached too: cacheGet
\* gives null only for a missing key), else the service's answer.
GetPriorityQueue(k) ==
  IF pqCache[k] # "none" THEN pqCache[k] ELSE PqServiceGet(k)

\* The cache after getPriorityQueue: the service's answer is stored under
\* the key of the options.
CacheAfterGetPriorityQueue(k) ==
  IF pqCache[k] # "none" THEN pqCache
  ELSE [pqCache EXCEPT ![k] = PqServiceGet(k)]

PqInit ==
  /\ InitClient
  /\ ErrIdle
  /\ SrvIdle
  /\ pqService \in SUBSET PqKeys
  /\ pqCache = [k \in PqKeys |-> "none"]
  /\ pqOut = PqNone
  /\ pqCalls = 0
  /\ CacheIdle

PqUnchanged ==
  UNCHANGED <<now, ticks, enterpriseToken, tokenVars, refreshVars, pc, kind,
              hdrInit, call, result, fetches, logVars, histVars, errVars, srvVars,
              cacheVars>>

\* client.getPriorityQueue({serverApiId, playerId}) is called and returns.
PqGet(k) ==
  /\ pqCalls < MaxPqCalls
  /\ pqCalls' = pqCalls + 1
  /\ pqCache' = CacheAfterGetPriorityQueue(k)
  /\ pqService' = pqService
  /\ pqOut' = PqOutcome("get", k, TRUE, "none", k \in pqService)
  /\ PqUnchanged

\* client.postPriorityQueue({serverApiId, playerId, ...}) is called and
\* returns or throws: it throws DuplicateEntryError itself when its
\* getPriorityQueue gives an entry, else it posts, and the service rejects
\* a second entry with 400 duplicate.
PqPost(k) ==
  /\ pqCalls < MaxPqCalls
  /\ pqCalls' = pqCalls + 1
  /\ pqCache' = CacheAfterGetPriorityQueue(k)
  /\ IF GetPriorityQueue(k) = "entry"
     THEN /\ pqService' = pqService
          /\ pqOut' = PqOutcome("post", k, FALSE, "DuplicateEntry", k \in pqService)
     ELSE IF k \in pqService
     THEN /\ pqService' = pqService
          /\ pqOut' = PqOutcome("post", k, FALSE,
                                ErrorHandler(ApiUrl, "POST",
                                             Response(400, Body(TRUE, "duplicate", Null, 0))).kind,
                                TRUE)
     ELSE /\ pqService' = pqService \cup {k}
          /\ pqOut' = PqOutcome("post", k, TRUE, "none", FALSE)
  /\ PqUnchanged

\* client.deletePriorityQueue({serverApiId, playerId}) is called and
\* returns or throws: the service removes the entry, and answers the
\* delete of a missing entry with success or with 404 not-found.
PqDelete(k, missingIsError) ==
  /\ pqCalls < MaxPqCalls
  /\ pqCalls' = pqCalls + 1
  /\ pqCache' = pqCache
  /\ pqService' = pqService \ {k}
  /\ pqOut' = IF k \notin pqService /\ missingIsError
              THEN PqOutcome("delete", k, FALSE, "NotFound", FALSE)
              ELSE PqOutcome("delete", k, TRUE, "none", k \in pqService)
  /\ PqUnchanged

\* The cached response under k expires (its TTL of 100 s has passed).
PqExpire(k) ==
  /\ pqCache[k] # "none"
  /\ pqCache' = [pqCache EXCEPT ![k] = "none"]
  /\ UNCHANGED <<pqService, pqOut, pqCalls>>
  /\ PqUnchanged

PqNext ==
  \/ \E k \in PqKeys : PqGet(k)
  \/ \E k \in PqKeys : PqPost(k)
  \/ \E k \in PqKeys, e \in BOOLEAN : PqDelete(k, e)
  \/ \E k \in PqKeys : PqExpire(k)

PqSpec == PqInit /\ [][PqNext]_vars

\* ---------------------------------------------------------- the cache
\* CacheManager's operations and CFToolsClient.getAppGrants(), called one
\* after the other on the clients of one process, which share the
\* CacheManager instance.

\* Values set directly, the ttl they are set with (the tests' one second),
\* resource identifiers the service reports, and the steps of the clock.
CacheValues == {StringVal("value"), StringVal(IsoString), DateVal(IsoString)}
CacheTtls == {MS_IN_ONE_S}
GrantIdentifiers == {"value", IsoString}
CacheTickSteps == {(MS_IN_ONE_S * 5) \div 4, 125 * MS_IN_ONE_S}

CacheInit ==
  /\ InitClient
  /\ ErrIdle
  /\ SrvIdle
  /\ PqIdle
  /\ CacheIdle

CacheUnchanged ==
  UNCHANGED <<enterpriseToken, tokenVars, refreshVars, pc, kind, hdrInit, call,
              result, fetches, logVars, histVars, errVars, srvVars, pqVars>>

\* What del(key) for every key of D leaves of the record of the sets.
LastAfterDel(last, D) ==
  [k \in CacheKeys |->
     IF k \in D /\ last[k].status = "set"
     THEN [last[k] EXCEPT !.status = "deleted"]
     ELSE last[k]]

\* cacheManager.set(k, v, ttl) is called and awaited.
CacheSet(k, v, ttl) ==
  /\ cOps < MaxCacheOps
  /\ cOps' = cOps + 1
  /\ cStore' = StoreAfterSet(cStore, k, v, ttl)
  /\ keysSet' = KeysAfterAdd(keysSet, k)
  /\ cLast' = [cLast EXCEPT ![k] = LastSet("set", v, cOps + 1, now + ttl)]
  /\ cOut' = CacheOp("set")
  /\ UNCHANGED <<now, ticks, cPending>>
  /\ CacheUnchanged

\* cacheManager.del(k) is called and awaited.
CacheDel(k) ==
  /\ cOps < MaxCacheOps
  /\ cOps' = cOps + 1
  /\ cStore' = StoreAfterDel(cStore, {k})
  /\ keysSet' = KeysAfterDel(keysSet, {k})
  /\ cLast' = LastAfterDel(cLast, {k})
  /\ cOut' = CacheOp("del")
  /\ UNCHANGED <<now, ticks, cPending>>
  /\ CacheUnchanged

\* cacheManager.clear() is called and awaited.
CacheClear ==
  /\ cOps < MaxCacheOps
  /\ cOps' = cOps + 1
  /\ cStore' = [k \in CacheKeys |-> NoEntry]
  /\ keysSet' = <<>>
  /\ cLast' = [k \in CacheKeys |->
                 IF cLast[k].status = "set"
                 THEN [cLast[k] EXCEPT !.status = "cleared"]
                 ELSE cLast[k]]
  /\ cOut' = CacheOp("clear")
  /\ UNCHANGED <<now, ticks, cPending>>
  /\ CacheUnchanged

\* cacheManager.enforceMaxSizeForPrefix(prefix, maxSize) is called and awaited.
EnforceMaxSizeForPrefix(prefix, maxSize) ==
  LET D == KeysToDelete(keysSet, prefix, maxSize)
  IN /\ cOps < MaxCacheOps
     /\ cOps' = cOps + 1
     /\ cStore' = StoreAfterDel(cStore, D)
     /\ keysSet' = KeysAfterDel(keysSet, D)
     /\ cLast' = LastAfterDel(cLast, D)
     /\ cOut' = CacheOutcome("enforce", Null, NullVal, FALSE, prefix, maxSize,
                             KeysForPrefix(keysSet, prefix), D)
     /\ UNCHANGED <<now, ticks, cPending>>
     /\ CacheUnchanged

\* CFToolsClient.cacheSet('appGrants', rootCacheKey, v) run to its end:
\* set, then enforceMaxSizeForPrefix.
ClientCacheSet(v) ==
  LET st == StoreAfterSet(cStore, AppGrantsKey, v, CacheTTL)
      ks == KeysAfterAdd(keysSet, AppGrantsKey)
      D == KeysToDelete(ks, "appGrants", CacheMaxSize)
  IN /\ cStore' = StoreAfterDel(st, D)
     /\ keysSet' = KeysAfterDel(ks, D)
     /\ cLast' = LastAfterDel(
                   [cLast EXCEPT ![AppGrantsKey] =
                      LastSet("set", v, cOps + 1, now + CacheTTL)], D)

\* client.getAppGrants() is called on the client of application app and
\* returns: the cached response when the cache has one, else the service's
\* answer for app, whose cacheSet is started and not awaited, so that it
\* has landed when the call returns or lands later.
GetAppGrants(app, identifier, landed) ==
  /\ cOps < MaxCacheOps
  /\ cOps' = cOps + 1
  /\ UNCHANGED <<now, ticks>>
  /\ CacheUnchanged
  /\ IF Get(AppGrantsKey) # NullVal
     THEN /\ cOut' = CacheOutcome("getAppGrants", app, Get(AppGrantsKey), FALSE,
                                  Null, 0, <<>>, {})
          /\ UNCHANGED <<cStore, keysSet, cLast, cPending>>
     ELSE LET v == GrantsVal(app, DateVal(IsoString), StringVal(identifier))
          IN /\ cOut' = CacheOutcome("getAppGrants", app, v, TRUE, Null, 0, <<>>, {})
             /\ IF landed
                THEN ClientCacheSet(v) /\ cPending' = cPending
                ELSE /\ cPending' = cPending \cup {v}
                     /\ UNCHANGED <<cStore, keysSet, cLast>>

\* A cacheSet that was started and not awaited runs to its end.
CacheSetLands(v) ==
  /\ v \in cPending
  /\ cPending' = cPending \ {v}
  /\ cOps' = cOps + 1
  /\ ClientCacheSet(v)
  /\ cOut' = CacheOp("cacheSet")
  /\ UNCHANGED <<now, ticks>>
  /\ CacheUnchanged

\* Time passes.
CacheTick(d) ==
  /\ ticks < MaxTicks
  /\ ticks' = ticks + 1
  /\ now' = now + d
  /\ cOut' = CacheOp("tick")
  /\ UNCHANGED <<cStore, keysSet, cPending, cLast, cOps>>
  /\ CacheUnchanged

CacheNext ==
  \/ \E k \in CacheKeys, v \in CacheValues, ttl \in CacheTtls : CacheSet(k, v, ttl)
  \/ \E k \in CacheKeys : CacheDel(k)
  \/ CacheClear
  \/ \E prefix \in CachePrefixes, maxSize \in 0..2 :
       EnforceMaxSizeForPrefix(prefix, maxSize)
  \/ \E app \in CacheClients, identifier \in GrantIdentifiers, landed \in BOOLEAN :
       GetAppGrants(app, identifier, landed)
  \/ \E v \in cPending : CacheSetLands(v)
  \/ \E d \in CacheTickSteps : CacheTick(d)

CacheSpec == CacheInit /\ [][CacheNext]_vars

\* Every HTTP call settles (the service answers, the transport fails, or
\* the 10 s abort signal fires) and the 100 ms poll interval keeps firing.
FairSpec ==
  /\ Spec
  /\ \A p \in Procs :
       /\ WF_vars(\E resp \in AuthResponses : AuthResponse(p, resp))
       /\ WF_vars(\E resp \in FetchResponses : FetchResponse(p, resp))
       /\ WF_vars(PollTick(p))

\* ============================================================== claims
\* Only request() has been called, all calls at the same instant, and no
\* token acquisition has failed.
ConcurrentRequestsOnly ==
  /\ ticks = 0
  /\ failed = 0
  /\ \A p \in Procs : kind[p] \in {"none", "request"}

InFlight(where) == {p \in Procs : pc[p] = where}

C2_AtMostOneAcquisitionInFlight == Cardinality(InFlight("authWait")) <= 1

\* C3: every request() and performRefresh() invocation that has started
\* eventually completes, by returning or by throwing.
C3_EveryInvocationCompletes ==
  \A p \in Procs :
    (kind[p] \in {"request", "refresh"}) ~> (pc[p] = "done")

\* C4: whenever the Authentication is marked authenticated, its stored
\* token is not null.
C4_AuthenticatedHasToken == authenticated => authenticationToken # Null

\* Authenticated with a token after an acquisition failed and another
\* succeeded.
C4_Witness ==
  /\ authenticated /\ authenticationToken # Null
  /\ failed >= 1 /\ granted >= 1

\* C5: every call other than POST /auth/register is issued only once a
\* token acquisition has succeeded, and carries as Authorization the bearer
\* of the token stored when it is issued.
C5_CallsCarryStoredToken ==
  [][\A p \in Procs :
       (pc[p] # "fetchWait" /\ pc'[p] = "fetchWait")
         => /\ granted' >= 1
            /\ call'[p].url # AuthRegisterUrl
            /\ authenticationToken' # Null
            /\ "Authorization" \in DOMAIN call'[p].headers
            /\ call'[p].headers["Authorization"] = BearerOf(authenticationToken')]_vars

\* A request whose caller passed an Authorization header of their own is in
\* flight with the stored token, and nobody called authenticate() or
\* performRefresh().
C5_Witness ==
  /\ \A p \in Procs : kind[p] \in {"none", "request"}
  /\ \E p \in Procs :
       /\ pc[p] = "fetchWait"
       /\ "Authorization" \in DOMAIN hdrInit[p]
       /\ call[p].headers["Authorization"] = "Bearer tok1"
       /\ authenticationToken = "tok1"

\* C6: POST /auth/register is issued only in a state where shouldRefresh()
\* is true; while it is false, performRefresh() returns without a call or
\* a change of state, and authenticate() returns the stored issuedAt,
\* expiresAt and token without a call.
C6_AcquireOnlyWhenStale ==
  [][/\ authPosts' > authPosts => ShouldRefresh
     /\ \A p \in Procs :
          (kind[p] = "none" /\ kind'[p] = "refresh" /\ ~ShouldRefresh)
            => /\ authPosts' = authPosts
               /\ tokenVars' = tokenVars
               /\ refreshVars' = refreshVars
               /\ pc'[p] = "done" /\ result'[p].ok
     /\ \A p \in Procs :
          (kind[p] = "none" /\ kind'[p] = "auth" /\ ~ShouldRefresh)
            => /\ authPosts' = authPosts
               /\ tokenVars' = tokenVars
               /\ pc'[p] = "done"
               /\ result'[p] = ReturnedAuth([issuedAt |-> issuedAt,
                                              expiresAt |-> expiresAt,
                                              token |-> authenticationToken])]_vars

\* performRefresh() acquired a token, and an authenticate() right after it
\* returned that token: one call in total.
C6_Witness ==
  /\ kind[1] = "refresh" /\ pc[1] = "done" /\ result[1].ok
  /\ kind[2] = "auth" /\ pc[2] = "done" /\ result[2].ok
  /\ result[2].auth.token = "tok1"
  /\ authPosts = 1 /\ ticks = 0

\* C7: shouldRefresh() is true while nothing was ever called on the
\* Authentication, and false in the state a performRefresh() leaves when
\* it acquired a token whose reported validity exceeds the buffer.
C7_ShouldRefreshFreshAndAfter ==
  [][/\ (\A p \in Procs : kind[p] = "none") => ShouldRefresh
     /\ \A p \in Procs :
          (/\ kind[p] \in {"request", "refresh", "timer"}
           /\ pc[p] = "authWait" /\ pc'[p] # "authWait"
           /\ granted' = granted + 1
           /\ lastGrant'.valid_for * MS_IN_ONE_S > AUTHENTICATION_TOKEN_VALIDITY_BUFFER)
            => ~ShouldRefresh']_vars

\* A performRefresh() has just acquired a token valid for a day.
C7_Witness ==
  /\ kind[1] = "refresh" /\ pc[1] = "done" /\ result[1].ok
  /\ kind[2] = "none"
  /\ granted = 1 /\ lastGrant.valid_for = 86400
  /\ ~ShouldRefresh

C9_ExpectedHeaders ==
  IF enterpriseToken # Null
  THEN [h \in {"Authorization", "X-Enterprise-Access-Token"} |->
          IF h = "Authorization" THEN BearerOf(lastGrant.token) ELSE enterpriseToken]
  ELSE [h \in {"Authorization"} |-> BearerOf(lastGrant.token)]

\* C9: once the service has granted token t, the Authentication is
\* authenticated, stores t, has issuedAt and expiresAt set, and
\* getHeaders(false) is exactly Authorization: Bearer t, plus
\* X-Enterprise-Access-Token exactly when an enterprise token is configured.
C9_StateAfterGrant ==
  granted >= 1
    => /\ authenticated
       /\ authenticationToken = lastGrant.token
       /\ lastGrant.token # Null
       /\ issuedAt # NoDate /\ expiresAt # NoDate
       /\ GetHeaders(FALSE) = Headers(C9_ExpectedHeaders)

\* An authenticate() with an enterprise token configured got token tok1.
C9_Witness ==
  /\ granted = 1 /\ enterpriseToken = "ent-secret"
  /\ \E p \in Procs : kind[p] = "auth" /\ result[p].ok /\ result[p].auth.token = "tok1"
  /\ GetHeaders(FALSE).headers["Authorization"] = "Bearer tok1"
  /\ GetHeaders(FALSE).headers["X-Enterprise-Access-Token"] = "ent-secret"

\* The rows of the error-mapping table: status, slug, error kind.
C10_Row(status, slug, k) == [status |-> status, slug |-> slug, kind |-> k]
C10_MappingTable ==
  {C10_Row(400, "invalid-method", "InvalidMethod"),
   C10_Row(400, "parameter-required", "ParameterRequired"),
   C10_Row(400, "failed-type-validation", "FailedTypeValidation"),
   C10_Row(400, "invalid-option", "InvalidOption"),
   C10_Row(400, "max-length-exceeded", "MaxLengthExceeded"),
   C10_Row(400, "min-length-too-small", "MinLengthNotReached"),
   C10_Row(400, "length-missmatch", "LengthMismatch"),
   C10_Row(400, "duplicate", "DuplicateEntry"),
   C10_Row(401, "login-required", "LoginRequired"),
   C10_Row(403, "token-regeneration-required", "TokenRegenerationRequired"),
   C10_Row(403, "bad-secret", "BadSecret"),
   C10_Row(403, "bad-token", "BadToken"),
   C10_Row(403, "expired-token", "ExpiredToken"),
   C10_Row(403, "no-grant", "NoGrant"),
   C10_Row(404, "not-found", "NotFound"),
   C10_Row(404, "invalid-resource", "InvalidResource"),
   C10_Row(404, "invalid-bucket", "InvalidBucket"),
   C10_Row(500, "unexpected", "Unexpected"),
   C10_Row(500, "timeout", "Timeout"),
   C10_Row(500, "system-unavailable", "SystemUnavailable")}

\* C10: a response with the status and the slug of a row of the table
\* makes request() throw the error kind of that row, and a 429 response
\* makes it throw RateLimit whatever its body.
C10_TableRowsExact ==
  errOut # NoResult
    => /\ \A row \in C10_MappingTable :
            errIn = Response(row.status, Body(TRUE, row.slug, Null, 0))
              => ~errOut.ok /\ errOut.kind = row.kind
       /\ (errIn.type = "response" /\ errIn.status = 429)
            => ~errOut.ok /\ errOut.kind = "RateLimit"

\* request() threw DuplicateEntry for 400 {error: "duplicate"}.
C10_Witness ==
  /\ errIn = Response(400, Body(TRUE, "duplicate", Null, 0))
  /\ ~errOut.ok /\ errOut.kind = "DuplicateEntry"

\* The response is a row of the error-mapping table.
C11_InTable(resp) ==
  \E row \in C10_MappingTable :
    resp = Response(row.status, Body(TRUE, row.slug, Null, 0))

\* A non-2xx response that is no row of the table and no 429.
C11_Unmapped(resp) ==
  /\ resp.type = "response"
  /\ ~(resp.status >= 200 /\ resp.status <= 299)
  /\ resp.status # 429
  /\ ~C11_InTable(resp)

\* The generic error with the raw status, url, method and body of resp.
C11_Generic(resp) ==
  [ok |-> FALSE, kind |-> "HTTPRequest", statusCode |-> resp.status,
   meta |-> [given |-> TRUE, statusCode |-> resp.status, status |-> -1,
             url |-> ApiUrl, method |-> "GET",
             body |-> IF resp.body.json THEN resp.body ELSE NoBody],
   auth |-> NoAuth]

\* C11 (as stated): every non-2xx response that is no row of the mapping
\* table and no 429 makes request() throw the generic HTTPRequest error
\* with the raw status, url, method and body.
C11_UnmappedIsGeneric ==
  (errOut # NoResult /\ C11_Unmapped(errIn)) => errOut = C11_Generic(errIn)

\* C11 (amended): the same for every status but 404; a 404 response that is
\* no row of the table makes request() throw NotFound.
C11_UnmappedIsGenericBut404 ==
  (errOut # NoResult /\ C11_Unmapped(errIn))
    => IF errIn.status = 404
       THEN ~errOut.ok /\ errOut.kind = "NotFound"
       ELSE errOut = C11_Generic(errIn)

\* request() threw the generic error for 400 with a slug the table lacks.
C11_Witness ==
  /\ errIn = Response(400, Body(TRUE, "unknown-slug", Null, 0))
  /\ errOut.kind = "HTTPRequest" /\ errOut.statusCode = 400
  /\ errOut.meta.url = ApiUrl /\ errOut.meta.body.error = "unknown-slug"

\* The error kinds of the mapping table.
C12_TableKinds == {row.kind : row \in C10_MappingTable} \cup {"RateLimit"}

\* C12: the error thrown for a row of kind X satisfies the predicate of X
\* and of no other kind of the table.
C12_PredicatesTellKindsApart ==
  errOut # NoResult
    => \A row \in C10_MappingTable :
         errIn = Response(row.status, Body(TRUE, row.slug, Null, 0))
           => \A k \in C12_TableKinds : IsError(k, errOut) <=> (k = row.kind)

\* C13: the error thrown for a non-2xx response carries the status, url,
\* method and body of that response, and its statusCode is the status the
\* service returned.
C13_ErrorCarriesResponse ==
  (errOut # NoResult /\ errIn.type = "response"
     /\ ~(errIn.status >= 200 /\ errIn.status <= 299))
    => /\ ~errOut.ok
       /\ errOut.meta.given
       /\ errOut.meta.statusCode = errIn.status
       /\ errOut.meta.url = ApiUrl /\ errOut.meta.method = "GET"
       /\ errOut.meta.body = (IF errIn.body.json THEN errIn.body ELSE NoBody)
       /\ errOut.statusCode = errIn.status

\* C14: a call that exceeds the timeout makes request() throw a Timeout
\* error whose status is 408, and any other transport failure makes it
\* throw the generic HTTPRequest error with status 0.
C14_TransportFailures ==
  errOut # NoResult
    => /\ errIn.type \in {"AbortError", "TimeoutError"}
            => ~errOut.ok /\ errOut.kind = "Timeout" /\ errOut.statusCode = 408
       /\ errIn.type \notin {"response", "AbortError", "TimeoutError"}
            => ~errOut.ok /\ errOut.kind = "HTTPRequest" /\ errOut.statusCode = 0

\* C15: a response with a non-2xx status makes request() throw; status 204
\* makes it return the empty result whatever the body; any other 2xx status
\* makes it return the parsed body, or throw LibraryParsing when the body
\* is no JSON.
C15_OneOutcomePerResponse ==
  (errOut # NoResult /\ errIn.type = "response")
    => LET success == errIn.status >= 200 /\ errIn.status <= 299
       IN /\ ~success => ~errOut.ok /\ errOut.kind \notin {"none", "LibraryParsing"}
          /\ errIn.status = 204 => errOut.ok /\ errOut.kind = "empty"
          /\ (success /\ errIn.status # 204 /\ errIn.body.json)
               => errOut.ok /\ errOut.kind = "json" /\ errOut.meta.body = errIn.body
          /\ (success /\ errIn.status # 204 /\ ~errIn.body.json)
               => ~errOut.ok /\ errOut.kind = "LibraryParsing"

\* request() returned the empty result for a 204 whose body is no JSON.
C15_Witness ==
  /\ errIn = Response(204, NoBody)
  /\ errOut.ok /\ errOut.kind = "empty"

\* C16: no request() invocation issues more than one call to its target
\* URL, whatever that call settles with.
C16_AtMostOneCall ==
  \A p \in Procs :
    /\ fetches[p] <= 1
    /\ pc[p] = "fetchWait" => fetches[p] = 1
    /\ kind[p] # "request" => fetches[p] = 0

\* A request() ended with RateLimit after its single call.
C16_Witness ==
  \E p \in Procs :
    /\ kind[p] = "request" /\ pc[p] = "done"
    /\ result[p].kind = "RateLimit" /\ fetches[p] = 1

\* C17: no log call is passed the application secret in clear text.
C17_SecretNeverLogged ==
  \A b \in loggedBodies : b.secret # applicationSecret

\* The literal secrets: every bearer token the service grants, alone and
\* as an Authorization value, and the enterprise token when one is set.
C18_Secrets ==
  ({TokenOf(n) : n \in 1..5} \cup {BearerOf(TokenOf(n)) : n \in 1..5}
     \cup {enterpriseToken}) \ {Null}

C19_Given(x) == x # Null /\ x # ""

\* C19: resolveServerApiId returns the explicit id when one is given,
\* otherwise the client's id when one is configured, otherwise throws
\* MissingServerApiId when require is true and returns null when it is not.
C19_Precedence ==
  srvOut # SrvPending
    => IF C19_Given(srvExplicit)
       THEN srvOut.ok /\ srvOut.value = srvExplicit
       ELSE IF C19_Given(serverApiId)
       THEN srvOut.ok /\ srvOut.value = serverApiId
       ELSE IF srvRequire
       THEN ~srvOut.ok /\ srvOut.error = "MissingServerApiId"
       ELSE srvOut.ok /\ srvOut.value = Null

\* The explicit id won over a different id of the client.
C19_Witness ==
  /\ srvExplicit = "srv-a" /\ serverApiId = "srv-b"
  /\ srvOut.ok /\ srvOut.value = "srv-a"

\* C20: postPriorityQueue throws DuplicateEntryError only when the player
\* has an entry in the server's priority queue at the time of the post.
C20_DuplicateOnlyWhenQueued ==
  (pqOut.op = "post" /\ pqOut.error = "DuplicateEntry") => pqOut.hadEntry

\* An invocation of performRefresh() (called directly, by request() or by
\* the refresh interval) that has set the flag and awaits authenticate().
InRefreshSection(p) ==
  kind[p] \in {"request", "refresh", "timer"} /\ pc[p] = "authWait"

\* C24: no two performRefresh() invocations are inside the refresh section
\* at the same time; an invocation that starts while the flag is set issues
\* no authentication call, and a waiting invocation leaves its wait only
\* when the flag is clear and no invocation is inside the section.
C24_OneRefreshAtATime ==
  /\ [](Cardinality({p \in Procs : InRefreshSection(p)}) <= 1)
  /\ [][\A p \in Procs :
          /\ (pc[p] = "idle" /\ pc'[p] # "idle" /\ kind'[p] # "auth"
                /\ currentlyRefreshing)
               => (pc'[p] # "authWait" /\ authPosts' = authPosts
                     /\ currentlyRefreshing')
          /\ (pc[p] = "poll" /\ pc'[p] # "poll")
               => (~currentlyRefreshing /\ \A q \in Procs : ~InRefreshSection(q))]_vars

\* One performRefresh() is inside the section while another one, having
\* seen the flag set, waits.
C24_Witness ==
  \E p, q \in Procs :
    /\ InRefreshSection(p)
    /\ kind[q] \in {"request", "refresh", "timer"}
    /\ pc[q] = "poll"
    /\ currentlyRefreshing

\* C25: the flag is set only while a token acquisition started by
\* performRefresh() is in flight; once it has completed, with a token or
\* with an error, the flag is clear.
C25_RefreshingOnlyWhileInFlight ==
  currentlyRefreshing => \E p \in Procs : InRefreshSection(p)

\* C26: at most one refresh interval is alive, and it is the one the
\* handle names; a step that sets a new interval leaves the one the handle
\* named before cleared.
C26_AtMostOneRefreshTimer ==
  /\ [](/\ Cardinality(timers) <= 1
        /\ \A t \in timers : t.id = refreshTimeout)
  /\ [][refreshTimeout' # refreshTimeout
          => /\ \A t \in timers' : t.id # refreshTimeout
             /\ \E t \in timers' : t.id = refreshTimeout']_vars

\* A second refresh has completed: the interval the first one set is gone
\* and the one the second set is alive.
C26_Witness ==
  /\ granted = 2
  /\ refreshTimeout = 2
  /\ \E t \in timers : t.id = 2
  /\ kind[1] # "auth" /\ kind[2] # "auth"

\* C27: every step that changes a field of the token state (authenticated,
\* issuedAt, expiresAt, authenticationToken) is taken while the flag is
\* set, by an invocation of performRefresh().
C27_TokenStateChangesUnderFlag ==
  [][tokenVars' # tokenVars
       => /\ currentlyRefreshing
          /\ \E p \in Procs : InRefreshSection(p) /\ pc'[p] # "authWait"]_vars

\* The auth headers of the bootstrap call: the enterprise token when one
\* is configured, else none.
C28_BootstrapAuthHeaders ==
  IF enterpriseToken # Null
  THEN [h \in {"X-Enterprise-Access-Token"} |-> enterpriseToken]
  ELSE [h \in {} |-> Null]

\* C28: the bootstrap call of authenticate() needs no bearer token and
\* does not re-enter the refresh logic: in every token state request()
\* with isAuthenticating = true skips performRefresh(), the call in flight
\* carries User-Agent and the enterprise header only, and an authenticate()
\* that needs a token issues exactly one POST /auth/register instead of
\* failing with LoginRequired.
C28_BootstrapNeedsNoToken ==
  /\ [](/\ ~RequestRefreshes(TRUE)
        /\ GetHeaders(TRUE) = Headers(C28_BootstrapAuthHeaders)
        /\ \A p \in Procs :
             pc[p] = "authWait"
               => /\ call[p].url = AuthRegisterUrl
                  /\ call[p].method = "POST"
                  /\ call[p].headers =
                       ("User-Agent" :> userAgent) @@ C28_BootstrapAuthHeaders)
  /\ [][\A p \in Procs :
          (pc[p] = "idle" /\ kind'[p] = "auth" /\ ShouldRefresh)
            => /\ pc'[p] = "authWait"
               /\ result'[p] = NoResult
               /\ authPosts' = authPosts + 1
               /\ UNCHANGED <<tokenVars, refreshVars>>
               /\ \A q \in Procs \ {p} : pc'[q] = pc[q]]_vars

\* authenticate() was called on a client that is not authenticated, and
\* its bootstrap call is in flight without an Authorization header.
C28_Witness ==
  \E p \in Procs :
    /\ kind[p] = "auth"
    /\ pc[p] = "authWait"
    /\ ~authenticated
    /\ ~GetHeaders(FALSE).ok
    /\ "Authorization" \notin DOMAIN call[p].headers

\* C21: when getAppGrants() returns a response it fetched from the
\* service, cacheManager.get('appGrants:root') made right after the call
\* returns gives a non-null value equal to the returned response.
C21_FetchedResponseIsCached ==
  (cOut.op = "getAppGrants" /\ cOut.fetched)
    => /\ Get(AppGrantsKey) # NullVal
       /\ Get(AppGrantsKey) = cOut.value

\* The most recent set of k has been followed by no del(k) and no clear(),
\* and has not outlived its ttl.
C22_Live(k) == cLast[k].status = "set" /\ now <= cLast[k].expires

\* C22: get(k) returns the value of the most recent set(k, v, ttl) while
\* that set is neither deleted, cleared nor expired, and null in every
\* other case.
C22_GetReturnsLastSet ==
  \A k \in CacheKeys :
    IF C22_Live(k) THEN Get(k) = cLast[k].v ELSE Get(k) = NullVal

\* The keys of `before` set longest ago, count of them.
C23_Oldest(before, count) ==
  {k \in Range(before) :
     Cardinality({j \in Range(before) : cLast[j].at < cLast[k].at}) < count}

\* C23: enforceMaxSizeForPrefix(p, n), with c keys of prefix p tracked
\* beforehand, has deleted exactly the c - n keys of that prefix that were
\* set longest ago (none when c <= n), and keysForPrefix(p) then holds
\* min(c, n) keys.
C23_OldestKeysDeleted ==
  cOut.op = "enforce"
    => LET c == Len(cOut.before)
           n == cOut.maxSize
       IN /\ cOut.deleted = C23_Oldest(cOut.before, IF c > n THEN c - n ELSE 0)
          /\ Len(KeysForPrefix(keysSet, cOut.prefix)) = IF c < n THEN c ELSE n

\* C29: the key bookkeeping matches the store: has(k) exactly when get(k)
\* gives a non-null value, and size() is the number of keys get() still
\* returns a value for, also once entries have expired.
C29_KeysMatchStore ==
  /\ \A k \in CacheKeys : Has(k) <=> Get(k) # NullVal
  /\ Size = Cardinality({k \in CacheKeys : Get(k) # NullVal})

\* The clients' applications and the one a value was fetched for.
C30_FetchedFor(v) == IF v.type = "grants" THEN v.app ELSE Null

\* C30: a response getAppGrants() returns from the cache on one client was
\* fetched with that client's credentials.
C30_CachedResponseIsOwn ==
  (cOut.op = "getAppGrants" /\ ~cOut.fetched /\ cOut.value.type = "grants")
    => C30_FetchedFor(cOut.value) = cOut.client
====
